---- MODULE Spec2Model ----
(***************************************************************************)
(* Model of the Quiz-Generator repository: the answer normalisation and    *)
(* scoring of the Flask application (src/app.py) and the LLM-backed        *)
(* question generator with validation, retry and fallback                  *)
(* (src/generator.py).                                                     *)
(*                                                                         *)
(* Text is modelled as a sequence of characters.  A character is a         *)
(* one-character string; a fixed piece of template text of the source is   *)
(* one opaque, non-whitespace character that carries the text.             *)
(***************************************************************************)
EXTENDS Integers, Sequences, FiniteSets, TLC

VARIABLES
    norm_pc,        \* position of the normalize_answer caller
    norm_arg,       \* the argument of normalize_answer
    norm_res,       \* normalize_answer(norm_arg)
    norm_res2,      \* normalize_answer(norm_res)
    gen_pc,         \* position inside QuestionGenerator.generate_mcq
    gen_topic,      \* generate_mcq's topic argument
    gen_difficulty, \* generate_mcq's difficulty, after its normalisation
    attempt,        \* the loop variable of generate_mcq's retry loop
    gen_ret,        \* how the invocation ended: a question or an exception
    last_error,     \* generate_mcq's last_error
    last_call_time, \* QuestionGenerator.last_call_time
    now,            \* time.time(), in seconds
    api_calls,      \* external calls issued by this instance so far
    inv_calls,      \* external calls issued by the current invocation
    last_api_time,  \* time of this instance's latest external call
    invocations,    \* completed generate_mcq invocations
    fallbacks,      \* the fallback questions returned so far, with their arguments
    val_pc,         \* position of the validation of one model response
    val_response,   \* the model response under validation
    val_outcome,    \* what the attempt with that response came to
    quizzes,        \* the rows of table quiz
    attempts,       \* the rows of table quiz_attempt, in insertion order
    next_quiz_id,   \* the next primary key of table quiz
    next_attempt_id,\* the next primary key of table quiz_attempt
    resp,           \* the latest request of the web application and its end
    display_questions, \* the questions as the latest quiz page showed them
    current_user,   \* the user of the latest request to a login_required route
    report,         \* the attempts the latest response shows
    st_now,         \* time.time() of the Streamlit session, in seconds
    st_ticks,       \* how often the clock of the session has advanced
    manager_questions, \* QuizManager.questions of the session manager
    last_generation_time, \* QuizManager.last_generation_time
    quiz_cache,     \* st.session_state.quiz_cache: cache key -> entry
    quiz_generated, \* st.session_state.quiz_generated
    current_q_idx,  \* st.session_state.current_q_idx
    can_generate,   \* whether the page shows the Generate Quiz button enabled
    st_run,         \* the script run of the latest step: its button and results
    generations,    \* history: when the generations that called the model began
    loop_pc,        \* generate_questions as a function: where the call is
    loop_in,        \* its arguments
    loop_out        \* its result

normVars == <<norm_pc, norm_arg, norm_res, norm_res2>>
genVars == <<gen_pc, gen_topic, gen_difficulty, attempt, gen_ret, last_error,
             last_call_time, now, api_calls, inv_calls, last_api_time,
             invocations, fallbacks>>
valVars == <<val_pc, val_response, val_outcome>>
appVars == <<quizzes, attempts, next_quiz_id, next_attempt_id, resp,
             display_questions, current_user, report>>
stVars == <<st_now, st_ticks, manager_questions, last_generation_time, quiz_cache,
            quiz_generated, current_q_idx, can_generate, st_run, generations>>
loopVars == <<loop_pc, loop_in, loop_out>>
vars == <<normVars, genVars, valVars, appVars, stVars, loopVars>>

(***************************************************************************)
(* Bounds of the model.                                                    *)
(***************************************************************************)
MaxLen == 4         \* longest text handed to normalize_answer
MaxOptions == 4     \* longest raw options list in a model response
MaxInvocations == 2 \* generate_mcq invocations on one generator instance
StartTime == 3      \* the clock when the constructor issued its test call
MaxQuestions == 2   \* most questions of a stored quiz
MaxQuizzes == 2     \* most quiz rows ever inserted
MaxAttempts == 2    \* most quiz_attempt rows ever inserted
MaxTicks == 3       \* most advances of the clock of the Streamlit session
MaxSlider == 2      \* most questions asked for in the Streamlit session

(***************************************************************************)
(* Text.                                                                   *)
(***************************************************************************)
\* Python's None (a missing form field): no text at all.
None == <<"<None>">>

\* Characters matched by \s and removed by str.strip().
Whitespace == {" ", "\t"}

Letters == {"a", "A", "b"}

Chars == Letters \cup Whitespace

\* All texts of at most n characters over the character set cs.
TextsUpTo(cs, n) == UNION {[1..k -> cs] : k \in 0..n}

\* str.lower() on one character.
LowerChar(c) ==
    CASE c = "A" -> "a"
      [] c = "B" -> "b"
      [] c = "Z" -> "z"
      [] c = "Hard" -> "hard"
      [] c = "Easy" -> "easy"
      [] c = "Fundamental concepts of" -> "fundamental concepts of"
      [] c = "Advanced theories in mathematics" -> "advanced theories in mathematics"
      [] c = "Historical events in ancient Rome" -> "historical events in ancient rome"
      [] c = "Chemical properties of water" -> "chemical properties of water"
      [] OTHER -> c

\* str.lower()
Lower(s) == [i \in 1..Len(s) |-> LowerChar(s[i])]

RECURSIVE LStrip(_)
LStrip(s) ==
    IF s # <<>> /\ Head(s) \in Whitespace THEN LStrip(Tail(s)) ELSE s

RECURSIVE RStrip(_)
RStrip(s) ==
    IF s # <<>> /\ s[Len(s)] \in Whitespace
    THEN RStrip(SubSeq(s, 1, Len(s) - 1))
    ELSE s

\* A slip that removes one character at each end instead of all of them.
StripOnce(s) ==
    LET l == IF s # <<>> /\ Head(s) \in Whitespace THEN Tail(s) ELSE s
    IN  IF l # <<>> /\ l[Len(l)] \in Whitespace
        THEN SubSeq(l, 1, Len(l) - 1)
        ELSE l

\* str.strip()
Strip(s) == RStrip(LStrip(s))

\* re.sub(r'\s+', ' ', s): every maximal run of whitespace becomes one space.
RECURSIVE CollapseWs(_)
CollapseWs(s) ==
    IF s = <<>> THEN <<>>
    ELSE IF Head(s) \in Whitespace
         THEN <<" ">> \o CollapseWs(LStrip(s))
         ELSE <<Head(s)>> \o CollapseWs(Tail(s))

\* Python truthiness of a form value or JSON string: None and '' are falsy.
Truthy(v) == v # None /\ v # <<>>

\* A slip that skips the lower-casing.
normalize_answer_nolower(answer) ==
    IF ~Truthy(answer) THEN <<>> ELSE CollapseWs(Strip(answer))

\* A slip that skips the whitespace collapsing.
normalize_answer_nocollapse(answer) ==
    IF ~Truthy(answer) THEN <<>> ELSE Lower(Strip(answer))

\* app.normalize_answer
normalize_answer(answer) ==
    IF ~Truthy(answer) THEN <<>> ELSE CollapseWs(Lower(Strip(answer)))


(***************************************************************************)
(* QuestionGenerator (src/generator.py).                                   *)
(***************************************************************************)
max_attempts == 3

min_call_interval == 2

RequiredOptions == 4

\* The keys generate_mcq requires of the parsed JSON object.
required_keys == {"question", "options", "correct_answer"}

\* A question, as MCQQuestion holds it.
NoQuestion == [question |-> None, options |-> <<>>, correct_answer |-> None]

\* MCQQuestion.clean_question, of a text.
clean_question(v) == Strip(v)

RECURSIVE KeepTruthy(_)
KeepTruthy(v) ==
    IF v = <<>> THEN <<>>
    ELSE IF Truthy(Head(v))
         THEN <<Head(v)>> \o KeepTruthy(Tail(v))
         ELSE KeepTruthy(Tail(v))

\* MCQQuestion.clean_options, of a list: the falsy entries are dropped, then
\* every entry is stripped.
clean_options(v) ==
    LET kept == KeepTruthy(v)
    IN  [i \in 1..Len(kept) |-> Strip(kept[i])]

\* MCQQuestion.clean_correct_answer
clean_correct_answer(v) == Strip(v)

\* A slip that keeps the model's answer text instead of the matched option.
OptionMatchKeepsAnswer(options, correct_answer) ==
    IF \E i \in 1..Len(options) :
          Strip(Lower(options[i])) = Strip(Lower(correct_answer))
    THEN correct_answer
    ELSE None

\* A slip that compares the texts as they are, letter case included.
OptionMatchExact(options, correct_answer) ==
    LET hits == {i \in 1..Len(options) : options[i] = correct_answer}
    IN  IF hits = {} THEN None
        ELSE options[CHOOSE i \in hits : \A j \in hits : i <= j]

\* The search loop of generate_mcq: the first option equal to correct_answer
\* ignoring case and surrounding whitespace, None when there is none.
OptionMatch(options, correct_answer) ==
    LET hits == {i \in 1..Len(options) :
                    Strip(Lower(options[i])) = Strip(Lower(correct_answer))}
    IN  IF hits = {} THEN None
        ELSE options[CHOOSE i \in hits : \A j \in hits : i <= j]

\* A slip that only tests the match for None, so that an empty option counts.
MatchFoundNotNone(option_match) == option_match # None

\* The test of line 213, "if not option_match", negated.
MatchFound(option_match) == Truthy(option_match)

\* The outcome of one attempt: a question, or the class of the exception.
Success(q) == [ok |-> TRUE, error |-> "", q |-> q]
Failure(e) == [ok |-> FALSE, error |-> e, q |-> NoQuestion]

\* The body of one attempt after the external call, lines 183-226: response is
\* what the call did and, when its text holds a JSON object, that object.
AttemptOutcome(response) ==
    CASE response.kind = "raise"   -> Failure("Exception")
      [] response.kind = "empty"   -> Failure("ValueError")
      [] response.kind = "nojson"  -> Failure("ValueError")
      [] response.kind = "badjson" -> Failure("ValueError")
      [] OTHER ->
         IF ~(required_keys \subseteq response.keys) THEN Failure("ValueError")
         ELSE IF response.options = None THEN Failure("ValidationError")
         ELSE LET options == clean_options(response.options)
                  correct_answer == clean_correct_answer(response.correct_answer)
                  option_match == OptionMatch(options, correct_answer)
                  unique_options ==
                      {Strip(Lower(options[i])) : i \in 1..Len(options)}
              IN  IF Len(options) # RequiredOptions THEN Failure("ValueError")
                  ELSE IF ~MatchFound(option_match) THEN Failure("ValueError")
                  ELSE IF Cardinality(unique_options) # RequiredOptions
                       THEN Failure("ValueError")
                  ELSE Success([question |-> clean_question(response.question),
                                options |-> options,
                                correct_answer |-> option_match])

\* A slip that leaves out the last except clause of the retry loop.
IsCaughtNarrow(e) == e \in {"JSONDecodeError", "ValidationError"}

\* The except clauses of the retry loop: JSONDecodeError, ValidationError and
\* Exception, of which every error class of an attempt is a subclass.
IsCaught(e) ==
    \/ e = "JSONDecodeError"
    \/ e = "ValidationError"
    \/ e \in {"Exception", "ValueError", "ValidationError", "JSONDecodeError"}

\* difficulty.lower(), replaced by 'medium' when it is not a known level.
NormalDifficulty(difficulty) ==
    IF Lower(difficulty) \in {<<"easy">>, <<"medium">>, <<"hard">>}
    THEN Lower(difficulty)
    ELSE <<"medium">>

difficulty_desc(difficulty) ==
    CASE difficulty = <<"easy">>   -> <<"basic">>
      [] difficulty = <<"medium">> -> <<"intermediate">>
      [] difficulty = <<"hard">>   -> <<"advanced">>
      [] OTHER -> <<"general">>

\* A slip that quotes the last error in the fallback question.
fallback_quoting_error(topic, difficulty) ==
    [question |->
        clean_question(<<"Which of the following best describes a", " ">>
                       \o difficulty_desc(difficulty)
                       \o <<" ", "aspect of", " ">> \o topic
                       \o <<"?", " ", last_error>>),
     options |->
        clean_options(<< <<"Fundamental concepts of", " ">> \o topic,
                         <<"Advanced theories in mathematics">>,
                         <<"Historical events in ancient Rome">>,
                         <<"Chemical properties of water">> >>),
     correct_answer |->
        clean_correct_answer(<<"Fundamental concepts of", " ">> \o topic)]

\* QuestionGenerator._create_fallback_mcq: the MCQQuestion constructor runs
\* the three validators on the texts built from topic and difficulty.
_create_fallback_mcq(topic, difficulty) ==
    [question |->
        clean_question(<<"Which of the following best describes a", " ">>
                       \o difficulty_desc(difficulty)
                       \o <<" ", "aspect of", " ">> \o topic \o <<"?">>),
     options |->
        clean_options(<< <<"Fundamental concepts of", " ">> \o topic,
                         <<"Advanced theories in mathematics">>,
                         <<"Historical events in ancient Rome">>,
                         <<"Chemical properties of water">> >>),
     correct_answer |->
        clean_correct_answer(<<"Fundamental concepts of", " ">> \o topic)]

\* A slip that tests the topic for emptiness without stripping it.
TopicOkUnstripped(topic) == Truthy(topic)

\* The guard of generate_mcq: not (not topic or not topic.strip()).
TopicOk(topic) == Truthy(topic) /\ Truthy(Strip(topic))

(***************************************************************************)
(* The inputs of the generator.                                            *)
(***************************************************************************)
Topics == {<<>>, <<" ">>, <<"t">>, <<"t", " ">>}

Difficulties == {<<"Hard">>, <<"expert">>}

\* Entries of the options list of a model response.
OptionPool == {<<>>, <<" ">>, <<"a">>, <<"A">>, <<"b">>, <<"c">>, <<"d", " ">>}

\* correct_answer texts of a model response.
AnswerPool == {<<" ">>, <<"A", " ">>, <<"z">>}

JsonResponse(keys, options, correct_answer) ==
    [kind |-> "json", keys |-> keys, question |-> <<"Q?", " ">>,
     options |-> options, correct_answer |-> correct_answer]

\* Entries of the options lists that are one longer than MaxOptions.
LongOptionPool == {<<>>, <<"a">>, <<"b">>, <<"c">>, <<"d", " ">>}

\* Options lists with two entries that differ in their inner whitespace only
\* (in the JSON text the tab is written as an escape, which _extract_json
\* leaves alone).
SpacedOptions ==
    {<< <<"a", " ", "b">>, <<"a", "\t", "b">>, <<"c">>, <<"d">> >>,
     << <<"c">>, <<"a", "\t", "b">>, <<"d">>, <<"a", " ", "b">> >>}

\* The responses that hold a complete JSON object with one of the options
\* lists and one of the answers.
ListResponses(lists, answers) ==
    {JsonResponse(required_keys, o, c) : o \in lists, c \in answers}

\* The external calls that return no complete JSON object.
BrokenResponses ==
    {[kind |-> k, keys |-> {}, question |-> None, options |-> None,
      correct_answer |-> None] : k \in {"raise", "empty", "nojson", "badjson"}}
    \cup {JsonResponse(required_keys \ {k}, <<>>, <<"a">>) : k \in required_keys}
    \cup {JsonResponse(required_keys, None, <<"a">>)}

\* What one external call can do: raise, return no text, return text without
\* a JSON object, return text whose object does not parse, or return a JSON
\* object (with a key missing, with options that are no list, or complete).
\* A response is a record of what the call did and of the parsed object.
\* The model responses, in groups: the broken ones, those with an options
\* list one entry short of MaxOptions, with MaxOptions entries, with one
\* entry more, and those with options that differ in inner whitespace.
Responses ==
    << BrokenResponses,
       ListResponses([1..(MaxOptions - 1) -> OptionPool], AnswerPool),
       ListResponses([1..MaxOptions -> OptionPool], AnswerPool),
       ListResponses([1..(MaxOptions + 1) -> LongOptionPool], AnswerPool),
       ListResponses(SpacedOptions, {<<"A", " ", "b">>}) >>

NoReturn == [kind |-> "none", error |-> "", q |-> NoQuestion]
Returned(q) == [kind |-> "question", error |-> "", q |-> q]
Raised(e) == [kind |-> "raised", error |-> e, q |-> NoQuestion]

\* The state of a constructed generator that is not in use.
GenIdle ==
    /\ gen_pc = "idle"
    /\ gen_topic = None
    /\ gen_difficulty = None
    /\ attempt = 0
    /\ gen_ret = NoReturn
    /\ last_error = ""
    /\ last_call_time = 0
    /\ now = StartTime
    /\ api_calls = 0
    /\ inv_calls = 0
    /\ last_api_time = 0
    /\ invocations = 0
    /\ fallbacks = <<>>

\* QuestionGenerator.__init__ has run: its test call was issued at StartTime
\* and took a second, and last_call_time was set to 0 after it.
GenInit ==
    /\ gen_pc = "idle"
    /\ gen_topic = None
    /\ gen_difficulty = None
    /\ attempt = 0
    /\ gen_ret = NoReturn
    /\ last_error = ""
    /\ last_call_time = 0
    /\ now = StartTime + 1
    /\ api_calls = 1
    /\ inv_calls = 0
    /\ last_api_time = StartTime
    /\ invocations = 0
    /\ fallbacks = <<>>

\* QuestionGenerator._rate_limit: the clock after its sleep.
RateLimited(t, last) ==
    IF t - last < min_call_interval
    THEN t + (min_call_interval - (t - last))
    ELSE t

\* generate_mcq is entered: the topic check, the difficulty normalisation and
\* the rate limit, lines 148-155.
GenerateMcq(topic, difficulty) ==
    /\ gen_pc = "idle"
    /\ invocations < MaxInvocations
    /\ gen_topic' = topic
    /\ inv_calls' = 0
    /\ attempt' = 0
    /\ last_error' = ""
    /\ IF ~TopicOk(topic)
       THEN /\ gen_pc' = "done"
            /\ gen_ret' = Raised("ValueError")
            /\ gen_difficulty' = difficulty
            /\ UNCHANGED <<last_call_time, now>>
       ELSE /\ gen_pc' = "attempt"
            /\ gen_ret' = NoReturn
            /\ gen_difficulty' = NormalDifficulty(difficulty)
            /\ now' = RateLimited(now, last_call_time)
            /\ last_call_time' = now'
    /\ UNCHANGED <<api_calls, last_api_time, invocations, fallbacks>>

\* What one attempt can come to: the outcomes of all responses.
AttemptOutcomes ==
    UNION {{AttemptOutcome(response) : response \in Responses[k]} :
              k \in 1..Len(Responses)}

\* A slip that waits the same time after every failed attempt.
wait_time_constant(a) == min_call_interval

\* The wait after failed attempt number attempt (from 0), line 242.
wait_time(a) == (a + 1) * 2

\* One iteration of the retry loop, lines 177-244: the external call, which
\* takes d seconds, the validation of what it returned, which comes to
\* outcome, and on a failure the wait before the next attempt.
Attempt(outcome, d) ==
    /\ gen_pc = "attempt"
    /\ api_calls' = api_calls + 1
    /\ inv_calls' = inv_calls + 1
    /\ last_api_time' = now
    /\ IF outcome.ok
       THEN /\ gen_pc' = "done"
            /\ gen_ret' = Returned(outcome.q)
            /\ now' = now + d
            /\ UNCHANGED <<attempt, last_error>>
       ELSE IF IsCaught(outcome.error)
       THEN /\ last_error' = outcome.error
            /\ gen_ret' = NoReturn
            /\ IF attempt < max_attempts - 1
               THEN /\ now' = now + d + wait_time(attempt)
                    /\ attempt' = attempt + 1
                    /\ gen_pc' = "attempt"
               ELSE /\ now' = now + d
                    /\ attempt' = attempt
                    /\ gen_pc' = "exhausted"
       ELSE /\ gen_pc' = "done"
            /\ gen_ret' = Raised(outcome.error)
            /\ now' = now + d
            /\ UNCHANGED <<attempt, last_error>>
    /\ UNCHANGED <<gen_topic, gen_difficulty, last_call_time, invocations,
                   fallbacks>>

\* All attempts failed: the fallback question is returned, lines 246-248.
Fallback ==
    /\ gen_pc = "exhausted"
    /\ gen_pc' = "done"
    /\ gen_ret' = Returned(_create_fallback_mcq(gen_topic, gen_difficulty))
    /\ fallbacks' = Append(fallbacks,
           [topic |-> gen_topic, difficulty |-> gen_difficulty,
            q |-> gen_ret'.q])
    /\ UNCHANGED <<gen_topic, gen_difficulty, attempt, last_error,
                   last_call_time, now, api_calls, inv_calls, last_api_time,
                   invocations>>

\* The caller has the result; the generator instance is free again.
GenReturn ==
    /\ gen_pc = "done"
    /\ gen_pc' = "idle"
    /\ gen_ret' = NoReturn
    /\ invocations' = invocations + 1
    /\ UNCHANGED <<gen_topic, gen_difficulty, attempt, last_error,
                   last_call_time, now, api_calls, inv_calls, last_api_time,
                   fallbacks>>

\* Seconds an external call takes.
CallDurations == {1}

GenNext ==
    \/ \E topic \in Topics, difficulty \in Difficulties :
          GenerateMcq(topic, difficulty) /\ UNCHANGED <<normVars, valVars, appVars, stVars, loopVars>>
    \/ \E outcome \in AttemptOutcomes, d \in CallDurations :
          Attempt(outcome, d) /\ UNCHANGED <<normVars, valVars, appVars, stVars, loopVars>>
    \/ Fallback /\ UNCHANGED <<normVars, valVars, appVars, stVars, loopVars>>
    \/ GenReturn /\ UNCHANGED <<normVars, valVars, appVars, stVars, loopVars>>


(***************************************************************************)
(* The validation of one attempt as a pure function: a model response is   *)
(* drawn and the body of the attempt is applied to it.                     *)
(***************************************************************************)
NoOutcome == [ok |-> FALSE, error |-> "none", q |-> NoQuestion]

ValIdle ==
    /\ val_pc = "idle"
    /\ val_response = None
    /\ val_outcome = NoOutcome

ValInit ==
    /\ val_pc = "start"
    /\ \E k \in 1..Len(Responses) : val_response \in Responses[k]
    /\ val_outcome = NoOutcome

\* Lines 183-226 run on the response.
Validate ==
    /\ val_pc = "start"
    /\ val_outcome' = AttemptOutcome(val_response)
    /\ val_pc' = "done"
    /\ UNCHANGED val_response

ValNext == Validate /\ UNCHANGED <<normVars, genVars, appVars, stVars, loopVars>>

(***************************************************************************)
(* The Flask application (src/app.py): quizzes, submissions, results.      *)
(***************************************************************************)
Users == {"u1", "u2"}

\* current_user of a request without a login.
Anonymous == "anonymous"

\* The parameters of generate_mcq besides self, generator.py line 146.
generate_mcq_params == {"topic", "difficulty"}

\* The keyword arguments of create_quiz's call of generate_mcq, app.py line
\* 341 (topic and difficulty are passed by position).
create_quiz_keywords == {"shuffle_options"}

\* Python binds the call only when every keyword names a parameter;
\* otherwise the call raises TypeError before the function body runs.
CallBinds(keywords, params) == keywords \subseteq params

\* The questions generate_mcq can return for a topic and difficulty.
GeneratorQuestions(topic, difficulty) ==
    {o.q : o \in {x \in AttemptOutcomes : x.ok}}
    \cup {_create_fallback_mcq(topic, NormalDifficulty(difficulty))}

\* The try block of create_quiz, lines 337-346: the generator is constructed
\* (generator_ok says whether __init__ succeeds) and asked for num_questions
\* questions.  Each result is the exception that ended the block, or the
\* list of questions.
QuizGeneration(topic, difficulty, num_questions, generator_ok) ==
    IF ~generator_ok THEN {[error |-> "ValueError", questions |-> <<>>]}
    ELSE IF num_questions <= 0 THEN {[error |-> "", questions |-> <<>>]}
    ELSE IF ~CallBinds(create_quiz_keywords, generate_mcq_params)
         THEN {[error |-> "TypeError", questions |-> <<>>]}
    ELSE IF ~TopicOk(topic) THEN {[error |-> "ValueError", questions |-> <<>>]}
    ELSE {[error |-> "", questions |-> qs] :
            qs \in [1..num_questions -> GeneratorQuestions(topic, difficulty)]}

Response(route, status, error, topic, n, id, form) ==
    [route |-> route, status |-> status, error |-> error, topic |-> topic,
     n |-> n, id |-> id, form |-> form]

NoResponse == Response("none", "", "", None, 0, 0, <<>>)

QuizById(id) == CHOOSE q \in quizzes : q.id = id

\* POST /create-quiz, lines 326-373.
create_quiz(user, topic, difficulty, num_questions, shuffle_options, generator_ok) ==
    /\ next_quiz_id <= MaxQuizzes
    /\ current_user' = user
    /\ report' = <<>>
    /\ IF user = Anonymous
       THEN /\ resp' = Response("create_quiz", "login", "", None, 0, 0, <<>>)
            /\ UNCHANGED <<quizzes, next_quiz_id>>
       ELSE \E r \in QuizGeneration(topic, difficulty, num_questions, generator_ok) :
              IF r.error # ""
              THEN /\ resp' = Response("create_quiz", "error", r.error, topic,
                                       num_questions, 0, <<>>)
                   /\ UNCHANGED <<quizzes, next_quiz_id>>
              ELSE /\ quizzes' = quizzes \cup
                          {[id |-> next_quiz_id, user_id |-> user,
                            questions |-> r.questions,
                            shuffle_options |-> shuffle_options]}
                   /\ next_quiz_id' = next_quiz_id + 1
                   /\ resp' = Response("create_quiz", "created", "", topic,
                                       num_questions, next_quiz_id, <<>>)
    /\ UNCHANGED <<attempts, next_attempt_id, display_questions>>

\* A slip that compares the raw texts.
IsCorrectExact(user_answer, correct_answer) == user_answer = correct_answer

\* Lines 399-402 of take_quiz.
IsCorrect(user_answer, correct_answer) ==
    normalize_answer(user_answer) = normalize_answer(correct_answer)

\* The scoring loop of take_quiz, lines 392-412, from question i on: form[i]
\* is request.form.get('question_<i-1>'), None when the field is missing.
RECURSIVE ScoreLoop(_, _, _, _, _)
ScoreLoop(questions, form, i, score, answers) ==
    IF i > Len(questions) THEN [score |-> score, answers |-> answers]
    ELSE LET user_answer == form[i]
             correct_answer == questions[i].correct_answer
             is_correct == IsCorrect(user_answer, correct_answer)
         IN  ScoreLoop(questions, form, i + 1,
                       IF is_correct THEN score + 1 ELSE score,
                       Append(answers,
                              [question |-> questions[i].question,
                               user_answer |-> user_answer,
                               correct_answer |-> correct_answer,
                               is_correct |-> is_correct]))

\* A slip that counts the answered questions as the total.
QuizAttemptAnswered(id, quiz, form) ==
    LET scored == ScoreLoop(quiz.questions, form, 1, 0, <<>>)
    IN  [id |-> id, quiz_id |-> quiz.id, score |-> scored.score,
         total_questions |-> Cardinality({i \in 1..Len(form) : form[i] # None}),
         answers |-> scored.answers]

\* The QuizAttempt row of a submission, lines 414-421.
QuizAttempt(id, quiz, form) ==
    LET scored == ScoreLoop(quiz.questions, form, 1, 0, <<>>)
    IN  [id |-> id, quiz_id |-> quiz.id, score |-> scored.score,
         total_questions |-> Len(quiz.questions),
         answers |-> scored.answers]

\* A slip that keeps one attempt per quiz: the new row replaces the old one.
replace_attempt(rows, row) ==
    Append(SelectSeq(rows, LAMBDA a : a.quiz_id # row.quiz_id), row)

\* db.session.add(attempt) and the commit, lines 422-423: one more row.
add_attempt(rows, row) == Append(rows, row)

\* Answers a learner can submit for one question: none, or a text.
AnswerChoices == {None, <<" ", "A", "\t">>}

\* POST /quiz/<share_link>, lines 384-425; the share link of a quiz is
\* modelled by its id.
take_quiz(share_link, form) ==
    /\ next_attempt_id <= MaxAttempts
    /\ IF \A q \in quizzes : q.id # share_link
       THEN /\ resp' = Response("take_quiz", "404", "", None, 0, share_link, <<>>)
            /\ UNCHANGED <<attempts, next_attempt_id>>
       ELSE /\ Len(form) = Len(QuizById(share_link).questions)
            /\ attempts' = add_attempt(attempts,
                   QuizAttempt(next_attempt_id, QuizById(share_link), form))
            /\ next_attempt_id' = next_attempt_id + 1
            /\ resp' = Response("take_quiz", "submitted", "", None, 0,
                                next_attempt_id, form)
    /\ report' = <<>>
    /\ UNCHANGED <<quizzes, next_quiz_id, display_questions, current_user>>

AttemptIds == {attempts[i].id : i \in 1..Len(attempts)}

AttemptById(id) ==
    attempts[CHOOSE i \in 1..Len(attempts) : attempts[i].id = id]

\* GET /results/<attempt_id>, lines 441-445: the percentage is
\* (score / total_questions) * 100, which raises ZeroDivisionError when
\* total_questions is 0.
quiz_results(attempt_id) ==
    /\ IF attempt_id \notin AttemptIds
       THEN /\ resp' = Response("quiz_results", "404", "", None, 0, attempt_id, <<>>)
            /\ report' = <<>>
       ELSE LET a == AttemptById(attempt_id)
            IN  IF a.total_questions = 0
                THEN /\ resp' = Response("quiz_results", "500", "ZeroDivisionError",
                                         None, 0, attempt_id, <<>>)
                     /\ report' = <<>>
                ELSE /\ resp' = Response("quiz_results", "ok", "", None,
                                         (a.score * 100) \div a.total_questions,
                                         attempt_id, <<>>)
                     /\ report' = <<a>>
    /\ UNCHANGED <<quizzes, attempts, next_quiz_id, next_attempt_id,
                   display_questions, current_user>>

\* POST /delete-quiz/<quiz_id>, lines 498-506; the attempts of the quiz go
\* with it (cascade='all, delete-orphan', line 70).
delete_quiz(user, quiz_id) ==
    /\ current_user' = user
    /\ report' = <<>>
    /\ IF user = Anonymous
       THEN /\ resp' = Response("delete_quiz", "login", "", None, 0, quiz_id, <<>>)
            /\ UNCHANGED <<quizzes, attempts>>
       ELSE IF \A q \in quizzes : q.id # quiz_id
       THEN /\ resp' = Response("delete_quiz", "404", "", None, 0, quiz_id, <<>>)
            /\ UNCHANGED <<quizzes, attempts>>
       ELSE IF QuizById(quiz_id).user_id # user
       THEN /\ resp' = Response("delete_quiz", "index", "", None, 0, quiz_id, <<>>)
            /\ UNCHANGED <<quizzes, attempts>>
       ELSE /\ quizzes' = quizzes \ {QuizById(quiz_id)}
            /\ attempts' = SelectSeq(attempts, LAMBDA a : a.quiz_id # quiz_id)
            /\ resp' = Response("delete_quiz", "deleted", "", None, 0, quiz_id, <<>>)
    /\ UNCHANGED <<next_quiz_id, next_attempt_id, display_questions>>

\* The orders random.shuffle can leave a list of n entries in: as it was,
\* reversed, and rotated by one.
Shuffles(n) ==
    {[i \in 1..n |-> i], [i \in 1..n |-> n + 1 - i], [i \in 1..n |-> (i % n) + 1]}

Permute(list, order) == [i \in 1..Len(list) |-> list[order[i]]]

\* A slip that shuffles the options of the stored question itself.
DisplayQuestionInPlace(question, shuffle_options, order) ==
    LET shuffled == IF shuffle_options
                    THEN [question EXCEPT !.options = Permute(@, order)]
                    ELSE question
    IN  [q_copy |-> shuffled, question |-> shuffled]

\* One iteration of the display loop, lines 430-437: q_copy is a copy of the
\* question and options_copy a copy of its options, so the shuffle reorders
\* the copy and the question of the quiz keeps its options.
DisplayQuestion(question, shuffle_options, order) ==
    [q_copy |-> IF shuffle_options
                THEN [question EXCEPT !.options = Permute(@, order)]
                ELSE question,
     question |-> question]

\* GET /quiz/<share_link>, lines 384-386 and 427-439: the quiz page; orders[i]
\* is what random.shuffle does to the options of question i.
take_quiz_get(share_link, orders) ==
    /\ IF \A q \in quizzes : q.id # share_link
       THEN /\ resp' = Response("take_quiz_get", "404", "", None, 0, share_link, <<>>)
            /\ UNCHANGED <<quizzes, display_questions>>
       ELSE LET quiz == QuizById(share_link)
                shown == [i \in 1..Len(quiz.questions) |->
                             DisplayQuestion(quiz.questions[i],
                                             quiz.shuffle_options, orders[i])]
            IN  /\ Len(orders) = Len(quiz.questions)
                /\ display_questions' =
                       [i \in 1..Len(shown) |-> shown[i].q_copy]
                /\ quizzes' = (quizzes \ {quiz}) \cup
                       {[quiz EXCEPT !.questions =
                            [i \in 1..Len(shown) |-> shown[i].question]]}
                /\ resp' = Response("take_quiz_get", "ok", "", None, 0,
                                    share_link, <<>>)
    /\ report' = <<>>
    /\ UNCHANGED <<attempts, next_quiz_id, next_attempt_id, current_user>>


\* The database right after db.create_all() on an empty schema.
AppIdle ==
    /\ quizzes = {}
    /\ attempts = <<>>
    /\ next_quiz_id = 1
    /\ next_attempt_id = 1
    /\ resp = NoResponse
    /\ display_questions = <<>>
    /\ current_user = Anonymous
    /\ report = <<>>

\* Questions of quizzes stored by earlier runs of the application, as the
\* generator returns them: a validated question whose options hold an empty
\* text, and a fallback question.
StoredQuestionPool ==
    {o.q : o \in {x \in AttemptOutcomes :
                     x.ok /\ x.q.options = <<<<>>, <<"a">>, <<"b">>, <<"c">>>>}}
    \cup {_create_fallback_mcq(<<"t">>, <<"medium">>)}

\* Questions as the generator returns them, for quizzes whose learners tick
\* an option: the validated questions with two options that differ in their
\* inner whitespace, and a fallback question.
TickedQuestionPool ==
    {o.q : o \in {x \in AttemptOutcomes :
                     x.ok /\ x.q.correct_answer = <<"a", " ", "b">>}}
    \cup {_create_fallback_mcq(<<"t">>, <<"medium">>)}

\* The database holds one quiz of user u1 that asks one question one or
\* more times.
TickedQuizInit ==
    /\ \E q \in TickedQuestionPool, n \in 1..MaxQuestions :
          quizzes = {[id |-> 1, user_id |-> "u1",
                      questions |-> [i \in 1..n |-> q],
                      shuffle_options |-> TRUE]}
    /\ attempts = <<>>
    /\ next_quiz_id = 2
    /\ next_attempt_id = 1
    /\ resp = NoResponse
    /\ display_questions = <<>>
    /\ current_user = Anonymous
    /\ report = <<>>

\* The forms of a learner who ticks, in every question, the option shown at
\* the same place of the page.
TickedForms(share_link) ==
    IF display_questions = <<>>
       \/ \A q \in quizzes : q.id # share_link
       \/ Len(display_questions) # Len(QuizById(share_link).questions)
    THEN {}
    ELSE {[i \in 1..Len(display_questions) |-> display_questions[i].options[j]] :
             j \in 1..RequiredOptions}

\* The database holds one quiz of user u1, stored by an earlier run.
StoredQuizInit ==
    /\ \E qs \in UNION {[1..n -> StoredQuestionPool] : n \in 0..MaxQuestions},
          shuffle_options \in BOOLEAN :
          quizzes = {[id |-> 1, user_id |-> "u1", questions |-> qs,
                      shuffle_options |-> shuffle_options]}
    /\ attempts = <<>>
    /\ next_quiz_id = 2
    /\ next_attempt_id = 1
    /\ resp = NoResponse
    /\ display_questions = <<>>
    /\ current_user = Anonymous
    /\ report = <<>>

\* The forms a learner can post for a share link.
Forms(share_link) ==
    IF \A q \in quizzes : q.id # share_link THEN {<<>>}
    ELSE [1..Len(QuizById(share_link).questions) -> AnswerChoices]

\* Question counts a create-quiz form can carry.
Counts == (0 - 1)..MaxQuestions

ScoringNext ==
    \/ \E share_link \in 1..MaxQuizzes : \E form \in Forms(share_link) :
          take_quiz(share_link, form) /\ UNCHANGED <<normVars, genVars, valVars, stVars, loopVars>>
    \/ \E attempt_id \in 1..MaxAttempts :
          quiz_results(attempt_id) /\ UNCHANGED <<normVars, genVars, valVars, stVars, loopVars>>
    \/ \E user \in Users \cup {Anonymous}, quiz_id \in 1..MaxQuizzes :
          delete_quiz(user, quiz_id) /\ UNCHANGED <<normVars, genVars, valVars, stVars, loopVars>>

\* The shuffles of one page: one order per question of the quiz, the same
\* order for every question.
Orders(share_link) ==
    IF \A q \in quizzes : q.id # share_link THEN {<<>>}
    ELSE {[i \in 1..Len(QuizById(share_link).questions) |-> order] :
             order \in Shuffles(RequiredOptions)}

\* Learners open the quiz page and submit answers.
DisplayNext ==
    \/ \E share_link \in 1..MaxQuizzes : \E orders \in Orders(share_link) :
          take_quiz_get(share_link, orders) /\ UNCHANGED <<normVars, genVars, valVars, stVars, loopVars>>
    \/ \E share_link \in 1..MaxQuizzes : \E form \in Forms(share_link) :
          take_quiz(share_link, form) /\ UNCHANGED <<normVars, genVars, valVars, stVars, loopVars>>

\* Learners open the quiz page and submit the options they tick.
TickNext ==
    \/ \E share_link \in 1..MaxQuizzes : \E orders \in Orders(share_link) :
          take_quiz_get(share_link, orders) /\ UNCHANGED <<normVars, genVars, valVars, stVars, loopVars>>
    \/ \E share_link \in 1..MaxQuizzes : \E form \in TickedForms(share_link) :
          take_quiz(share_link, form) /\ UNCHANGED <<normVars, genVars, valVars, stVars, loopVars>>

\* A slip that lets every logged-in user pass the owner check.
IsCreatorAnyUser(quiz, user) == user # Anonymous

\* quiz.user_id != current_user.id, negated: lines 379, 457, 480.
IsCreator(quiz, user) == quiz.user_id = user

\* The attempts of a quiz ordered by completed_at, latest first: lines 460
\* and 483.  Rows are inserted in the order of their completion.
AttemptsOf(quiz_id) ==
    LET rows == SelectSeq(attempts, LAMBDA a : a.quiz_id = quiz_id)
    IN  [i \in 1..Len(rows) |-> rows[Len(rows) + 1 - i]]

RECURSIVE SumScores(_)
SumScores(rows) ==
    IF rows = <<>> THEN 0 ELSE rows[1].score + SumScores(Tail(rows))

\* What an owner-only page of a quiz answers, in this order: the login
\* redirect of login_required, the 404 of first_or_404, the redirect to
\* index for a user who is not the creator, and else the page.
OwnerPage(route, user, share_link, page_status, rows) ==
    /\ current_user' = user
    /\ IF user = Anonymous
       THEN /\ resp' = Response(route, "login", "", None, 0, share_link, <<>>)
            /\ report' = <<>>
       ELSE IF \A q \in quizzes : q.id # share_link
       THEN /\ resp' = Response(route, "404", "", None, 0, share_link, <<>>)
            /\ report' = <<>>
       ELSE IF ~IsCreator(QuizById(share_link), user)
       THEN /\ resp' = Response(route, "index", "", None, 0, share_link, <<>>)
            /\ report' = <<>>
       ELSE IF page_status = "500"
       THEN /\ resp' = Response(route, "500", "ZeroDivisionError", None, 0,
                                share_link, <<>>)
            /\ report' = <<>>
       ELSE /\ resp' = Response(route, "ok", "", None,
                                IF rows = <<>> THEN 0
                                ELSE (SumScores(rows) * 100) \div
                                     (Len(rows) * Len(QuizById(share_link).questions)),
                                share_link, <<>>)
            /\ report' = rows
    /\ UNCHANGED <<quizzes, attempts, next_quiz_id, next_attempt_id,
                   display_questions>>

\* The average of lines 462-468 and 162-166 divides by the number of
\* questions when the quiz has attempts.
ReportStatus(share_link) ==
    IF /\ \E q \in quizzes : q.id = share_link /\ q.questions = <<>>
       /\ AttemptsOf(share_link) # <<>>
    THEN "500" ELSE "ok"

\* GET /quiz-report/<share_link>, lines 453-474.
quiz_report(user, share_link) ==
    OwnerPage("quiz_report", user, share_link, ReportStatus(share_link),
              AttemptsOf(share_link))

\* GET /download-report/<share_link>, lines 476-496, with the PDF of
\* create_pdf_report, lines 100-230.
download_report(user, share_link) ==
    OwnerPage("download_report", user, share_link, ReportStatus(share_link),
              AttemptsOf(share_link))

\* GET /quiz-created/<share_link>, lines 375-382: the page shows the quiz
\* and its link.
quiz_created(user, share_link) ==
    OwnerPage("quiz_created", user, share_link, "ok", <<>>)

\* The database holds one quiz of user u1 that asks one question zero or
\* more times.
ReportQuizInit ==
    /\ \E q \in StoredQuestionPool, n \in 0..MaxQuestions :
          quizzes = {[id |-> 1, user_id |-> "u1",
                      questions |-> [i \in 1..n |-> q],
                      shuffle_options |-> FALSE]}
    /\ attempts = <<>>
    /\ next_quiz_id = 2
    /\ next_attempt_id = 1
    /\ resp = NoResponse
    /\ display_questions = <<>>
    /\ current_user = Anonymous
    /\ report = <<>>

\* The forms of a learner who gives every question the same answer.
UniformForms(share_link) ==
    IF \A q \in quizzes : q.id # share_link THEN {<<>>}
    ELSE {[i \in 1..Len(QuizById(share_link).questions) |-> choice] :
             choice \in AnswerChoices}

\* Learners submit answers; users ask for the owner-only pages and delete.
ReportNext ==
    \/ \E share_link \in 1..MaxQuizzes : \E form \in UniformForms(share_link) :
          take_quiz(share_link, form) /\ UNCHANGED <<normVars, genVars, valVars, stVars, loopVars>>
    \/ \E user \in Users \cup {Anonymous}, quiz_id \in 1..MaxQuizzes :
          delete_quiz(user, quiz_id) /\ UNCHANGED <<normVars, genVars, valVars, stVars, loopVars>>
    \/ \E user \in Users \cup {Anonymous}, share_link \in 1..MaxQuizzes :
          quiz_report(user, share_link) /\ UNCHANGED <<normVars, genVars, valVars, stVars, loopVars>>
    \/ \E user \in Users \cup {Anonymous}, share_link \in 1..MaxQuizzes :
          download_report(user, share_link) /\ UNCHANGED <<normVars, genVars, valVars, stVars, loopVars>>
    \/ \E user \in Users \cup {Anonymous}, share_link \in 1..MaxQuizzes :
          quiz_created(user, share_link) /\ UNCHANGED <<normVars, genVars, valVars, stVars, loopVars>>

CreateNext ==
    \/ \E user \in Users \cup {Anonymous}, topic \in {<<>>, <<"t">>},
          num_questions \in Counts, shuffle_options \in BOOLEAN,
          generator_ok \in BOOLEAN :
          create_quiz(user, topic, <<"Hard">>, num_questions, shuffle_options,
                      generator_ok)
          /\ UNCHANGED <<normVars, genVars, valVars, stVars, loopVars>>
    \/ ScoringNext

(***************************************************************************)
(* The Streamlit preview, test.py: one browser session with its            *)
(* QuizManager and the quiz cache kept in st.session_state.  A step is one *)
(* click with the script runs it causes, or time passing.                  *)
(***************************************************************************)
min_generation_interval == 5

\* The age, in seconds, from which a cached quiz is no longer used.
cache_ttl == 600

\* time.time() when the session opens its page.
SessionStart == 10

\* How long the user lets the page rest between two clicks.
WaitSteps == {599, 1}

\* How long generate_questions runs.
GenerationTimes == {1}

\* The text input and the selectbox of the sidebar.
SessionTopics == {<<>>, <<" ">>, <<"t">>}
SessionDifficulties == {<<"Easy">>, <<"Hard">>}

can_generate_new_quiz(current_time, last) ==
    (current_time - last) >= min_generation_interval

\* f"{topic}_{difficulty}"
cache_key(topic, difficulty) == topic \o <<"_">> \o difficulty

\* A slip that also uses an entry that is exactly cache_ttl seconds old.
load_quiz_from_cache_stale(topic, difficulty, current_time, cache, held) ==
    LET key == cache_key(topic, difficulty)
    IN  IF key \in DOMAIN cache
           /\ current_time - cache[key].timestamp <= cache_ttl
        THEN [ret |-> TRUE, questions |-> cache[key].questions]
        ELSE [ret |-> FALSE, questions |-> held]

\* load_quiz_from_cache, lines 89-102: what it returns and the manager's
\* questions afterwards; held are the manager's questions before.  A
\* session_state without quiz_cache is the empty cache.
load_quiz_from_cache(topic, difficulty, current_time, cache, held) ==
    LET key == cache_key(topic, difficulty)
    IN  IF key \in DOMAIN cache
           /\ current_time - cache[key].timestamp < cache_ttl
        THEN [ret |-> TRUE, questions |-> cache[key].questions]
        ELSE [ret |-> FALSE, questions |-> held]

\* save_quiz_to_cache, lines 78-87: the cache afterwards.
save_quiz_to_cache(topic, difficulty, current_time, cache, held) ==
    LET key == cache_key(topic, difficulty)
    IN  [k \in (DOMAIN cache) \cup {key} |->
            IF k = key THEN [questions |-> held, timestamp |-> current_time]
            ELSE cache[k]]

\* The dict generate_questions appends for a question, lines 50-55.
McqDict(q) ==
    [type |-> "MCQ", question |-> q.question, options |-> q.options,
     correct_answer |-> q.correct_answer]

\* The validated questions the generator returns in the session.
SessionValidated ==
    {o.q : o \in {x \in AttemptOutcomes :
                     x.ok /\ x.q.options = <<<<>>, <<"a">>, <<"b">>, <<"c">>>>
                          /\ x.q.correct_answer = <<"a">>}}

\* What one call generate_mcq(topic, difficulty.lower()) of the manager can
\* do: raise for a blank topic, else return a validated question or the
\* fallback question.
McqCalls(topic, difficulty) ==
    IF ~TopicOk(topic) THEN {Raised("ValueError")}
    ELSE {Returned(q) :
            q \in SessionValidated
                  \cup {_create_fallback_mcq(topic,
                            NormalDifficulty(Lower(difficulty)))}}

\* A slip that allows one more attempt.
quiz_max_attempts_slack(num_question) == num_question + 3

quiz_max_attempts(num_question) == num_question + 2

\* The while loop of generate_questions, lines 36-64: calls[i] is what the
\* i-th call of generate_mcq does.  The result holds the questions
\* collected and the number of calls made.
RECURSIVE generate_loop(_, _, _, _, _)
generate_loop(calls, num_question, tried, held, generated_questions) ==
    IF Len(held) < num_question /\ tried < quiz_max_attempts(num_question)
    THEN LET call == calls[tried + 1]
         IN  IF call.kind = "raised"
             THEN IF tried + 1 >= 3
                  THEN [questions |-> held, attempts |-> tried + 1]
                  ELSE generate_loop(calls, num_question, tried + 1, held,
                                     generated_questions)
             ELSE LET question_text == Lower(Strip(call.q.question))
                  IN  IF question_text \notin generated_questions
                      THEN generate_loop(calls, num_question, tried + 1,
                               Append(held, McqDict(call.q)),
                               generated_questions \cup {question_text})
                      ELSE generate_loop(calls, num_question, tried + 1,
                               held, generated_questions)
    ELSE [questions |-> held, attempts |-> tried]

\* What the loop can leave behind, over everything the calls can do.
GenerationResults(topic, difficulty, num_question) ==
    {generate_loop(calls, num_question, 0, <<>>, {}) :
        calls \in [1..quiz_max_attempts(num_question) ->
                      McqCalls(topic, difficulty)]}

\* The index the preview shows and stores, lines 237-240.
PreviewIdx(idx, total) ==
    LET low == IF idx < total - 1 THEN idx ELSE total - 1
    IN  IF low > 0 THEN low ELSE 0

\* What a script run did: the button pressed, the sidebar's topic and
\* difficulty, whether load_quiz_from_cache was called and what it
\* returned, how many generators were constructed, how many generate_mcq
\* calls were made, and the message shown.
Run(button, topic, difficulty, load_called, load_ret, generators, calls, message) ==
    [button |-> button, topic |-> topic, difficulty |-> difficulty,
     load_called |-> load_called, load_ret |-> load_ret,
     generators |-> generators, calls |-> calls, message |-> message]

NoRun == Run("none", None, None, FALSE, FALSE, 0, 0, "")

\* The state a script run leaves behind: the handler's results, and the
\* index as the preview of the last script run clamps it.
Leaves(held, last, cache, generated, idx, enabled, run) ==
    /\ manager_questions' = held
    /\ last_generation_time' = last
    /\ quiz_cache' = cache
    /\ quiz_generated' = generated
    /\ current_q_idx' = IF generated THEN PreviewIdx(idx, Len(held)) ELSE idx
    /\ can_generate' = enabled
    /\ st_run' = run

\* A click on Generate Quiz, lines 157-192.  The button can be clicked
\* when the page shows it enabled.  generator_ok says whether
\* QuestionGenerator() succeeds, loop what the loop of generate_questions
\* leaves behind, took how long the generation runs.
GenerateQuiz(topic, difficulty, num_questions, generator_ok, loop, took) ==
    /\ can_generate
    /\ LET current == can_generate_new_quiz(st_now, last_generation_time)
           load == load_quiz_from_cache(topic, difficulty, st_now, quiz_cache,
                                        manager_questions)
       IN  IF ~Truthy(topic)
           THEN /\ Leaves(manager_questions, last_generation_time, quiz_cache,
                          quiz_generated, current_q_idx, current,
                          Run("generate", topic, difficulty, FALSE, FALSE,
                              0, 0, "Please enter a topic!"))
                /\ UNCHANGED <<st_now, st_ticks, generations>>
           ELSE IF load.ret
           THEN /\ Leaves(load.questions, last_generation_time, quiz_cache,
                          TRUE, 0, current,
                          Run("generate", topic, difficulty, TRUE, TRUE,
                              0, 0, "Quiz loaded from cache!"))
                /\ UNCHANGED <<st_now, st_ticks, generations>>
           ELSE IF ~generator_ok
           THEN /\ Leaves(load.questions, last_generation_time, quiz_cache,
                          quiz_generated, current_q_idx, current,
                          Run("generate", topic, difficulty, TRUE, FALSE,
                              1, 0, "Error"))
                /\ UNCHANGED <<st_now, st_ticks, generations>>
           ELSE IF ~current
           THEN /\ Leaves(load.questions, last_generation_time, quiz_cache,
                          quiz_generated, current_q_idx, current,
                          Run("generate", topic, difficulty, TRUE, FALSE,
                              1, 0, "Failed to generate quiz!"))
                /\ UNCHANGED <<st_now, st_ticks, generations>>
           ELSE /\ st_ticks < MaxTicks
                /\ st_now' = st_now + took
                /\ st_ticks' = st_ticks + 1
                /\ generations' = IF TopicOk(topic)
                                  THEN Append(generations, st_now)
                                  ELSE generations
                /\ IF Len(loop.questions) > 0
                   THEN Leaves(loop.questions, st_now,
                               save_quiz_to_cache(topic, difficulty, st_now',
                                   quiz_cache, loop.questions),
                               TRUE, 0,
                               can_generate_new_quiz(st_now', st_now),
                               Run("generate", topic, difficulty, TRUE, FALSE,
                                   1, loop.attempts,
                                   "Quiz generated successfully!"))
                   ELSE Leaves(loop.questions, st_now, quiz_cache,
                               quiz_generated, current_q_idx, current,
                               Run("generate", topic, difficulty, TRUE, FALSE,
                                   1, loop.attempts,
                                   "Failed to generate quiz!"))

\* A click on Reset Quiz, lines 195-199: a new manager; the cache stays.
ResetQuiz ==
    /\ Leaves(<<>>, 0, quiz_cache, FALSE, 0,
              can_generate_new_quiz(st_now, 0),
              Run("reset", None, None, FALSE, FALSE, 0, 0, ""))
    /\ UNCHANGED <<st_now, st_ticks, generations>>

\* The preview is on the page, lines 235-288: it is drawn when
\* quiz_generated is set, and line 245 raises IndexError before any of its
\* buttons is drawn when the manager holds no question.
PreviewShown == quiz_generated /\ manager_questions # <<>>

\* A click on Generate New Quiz, lines 284-288.
GenerateNewQuiz ==
    /\ PreviewShown
    /\ Leaves(<<>>, 0, quiz_cache, FALSE, 0,
              can_generate_new_quiz(st_now, 0),
              Run("new", None, None, FALSE, FALSE, 0, 0, ""))
    /\ UNCHANGED <<st_now, st_ticks, generations>>

\* A click on Previous, lines 261-263; the button is disabled at index 0.
Previous ==
    /\ PreviewShown
    /\ current_q_idx # 0
    /\ Leaves(manager_questions, last_generation_time, quiz_cache,
              quiz_generated,
              IF current_q_idx - 1 > 0 THEN current_q_idx - 1 ELSE 0,
              can_generate_new_quiz(st_now, last_generation_time),
              Run("previous", None, None, FALSE, FALSE, 0, 0, ""))
    /\ UNCHANGED <<st_now, st_ticks, generations>>

\* A click on Next, lines 271-273; the button is disabled at the last
\* question.
NextQuestion ==
    /\ PreviewShown
    /\ current_q_idx # Len(manager_questions) - 1
    /\ Leaves(manager_questions, last_generation_time, quiz_cache,
              quiz_generated,
              IF current_q_idx + 1 < Len(manager_questions) - 1
              THEN current_q_idx + 1 ELSE Len(manager_questions) - 1,
              can_generate_new_quiz(st_now, last_generation_time),
              Run("next", None, None, FALSE, FALSE, 0, 0, ""))
    /\ UNCHANGED <<st_now, st_ticks, generations>>

\* A click on Restart Preview, lines 266-268.
RestartPreview ==
    /\ PreviewShown
    /\ Leaves(manager_questions, last_generation_time, quiz_cache,
              quiz_generated, 0,
              can_generate_new_quiz(st_now, last_generation_time),
              Run("restart", None, None, FALSE, FALSE, 0, 0, ""))
    /\ UNCHANGED <<st_now, st_ticks, generations>>

\* A script run without a button, as a change of a sidebar widget causes
\* it: the page is drawn again, lines 116-163 and 211-281.
Rerender ==
    /\ Leaves(manager_questions, last_generation_time, quiz_cache,
              quiz_generated, current_q_idx,
              can_generate_new_quiz(st_now, last_generation_time),
              Run("widget", None, None, FALSE, FALSE, 0, 0, ""))
    /\ UNCHANGED <<st_now, st_ticks, generations>>

\* The page rests for d seconds.
Wait(d) ==
    /\ st_ticks < MaxTicks
    /\ st_now' = st_now + d
    /\ st_ticks' = st_ticks + 1
    /\ st_run' = NoRun
    /\ UNCHANGED <<manager_questions, last_generation_time, quiz_cache,
                   quiz_generated, current_q_idx, can_generate, generations>>

\* No Streamlit session is open.
StIdle ==
    /\ st_now = SessionStart
    /\ st_ticks = 0
    /\ manager_questions = <<>>
    /\ last_generation_time = 0
    /\ quiz_cache = <<>>
    /\ quiz_generated = FALSE
    /\ current_q_idx = 0
    /\ can_generate = FALSE
    /\ st_run = NoRun
    /\ generations = <<>>

\* The first script run of a session, lines 116-163: a new manager, no
\* quiz, no cache, and the page drawn with the Generate Quiz button.
SessionInit ==
    /\ st_now = SessionStart
    /\ st_ticks = 0
    /\ manager_questions = <<>>
    /\ last_generation_time = 0
    /\ quiz_cache = <<>>
    /\ quiz_generated = FALSE
    /\ current_q_idx = 0
    /\ can_generate = can_generate_new_quiz(SessionStart, 0)
    /\ st_run = NoRun
    /\ generations = <<>>

SessionNext ==
    \/ \E topic \in SessionTopics, difficulty \in SessionDifficulties,
          num_questions \in 1..MaxSlider, generator_ok \in BOOLEAN,
          took \in GenerationTimes :
          \E loop \in GenerationResults(topic, difficulty, num_questions) :
             GenerateQuiz(topic, difficulty, num_questions, generator_ok,
                          loop, took)
             /\ UNCHANGED <<normVars, genVars, valVars, appVars, loopVars>>
    \/ ResetQuiz /\ UNCHANGED <<normVars, genVars, valVars, appVars, loopVars>>
    \/ Rerender /\ UNCHANGED <<normVars, genVars, valVars, appVars, loopVars>>
    \/ \E d \in WaitSteps :
          Wait(d) /\ UNCHANGED <<normVars, genVars, valVars, appVars, loopVars>>

\* The session with the buttons of the preview.
PreviewNext ==
    \/ SessionNext
    \/ GenerateNewQuiz /\ UNCHANGED <<normVars, genVars, valVars, appVars, loopVars>>
    \/ Previous /\ UNCHANGED <<normVars, genVars, valVars, appVars, loopVars>>
    \/ NextQuestion /\ UNCHANGED <<normVars, genVars, valVars, appVars, loopVars>>
    \/ RestartPreview /\ UNCHANGED <<normVars, genVars, valVars, appVars, loopVars>>

(***************************************************************************)
(* generate_questions of the QuizManager as a function of what the calls   *)
(* of generate_mcq do: the inputs are drawn from bounded sets and the      *)
(* accepted call is applied to them.                                       *)
(***************************************************************************)
\* What an accepted generate_questions returns and leaves in the manager,
\* lines 25-76, and how often it called generate_mcq.
generate_questions(calls, num_question) ==
    LET loop == generate_loop(calls, num_question, 0, <<>>, {})
    IN  [ret |-> Len(loop.questions) > 0, questions |-> loop.questions,
         calls |-> loop.attempts]

\* A question with the given text.
TextQuestion(text) ==
    [question |-> text, options |-> <<<<"a">>, <<"b">>, <<"c">>, <<"d">>>>,
     correct_answer |-> <<"a">>]

\* What a call of generate_mcq can do: raise, or return a question; two of
\* the questions differ in letter case only.
LoopOutcomes ==
    {Raised("ValueError"), Returned(TextQuestion(<<"A">>)),
     Returned(TextQuestion(<<"a">>)), Returned(TextQuestion(<<"b">>))}

\* Outcomes are on offer for one call more than the loop may make.
LoopInputs ==
    UNION {{[num_question |-> n, calls |-> calls] :
               calls \in [1..(n + 3) -> LoopOutcomes]} : n \in 1..MaxSlider}

NoLoopInput == [num_question |-> 0, calls |-> <<>>]
NoLoopResult == [ret |-> FALSE, questions |-> <<>>, calls |-> 0]

LoopIdle ==
    /\ loop_pc = "idle"
    /\ loop_in = NoLoopInput
    /\ loop_out = NoLoopResult

LoopInit ==
    /\ loop_pc = "start"
    /\ loop_in \in LoopInputs
    /\ loop_out = NoLoopResult

GenerateQuestions ==
    /\ loop_pc = "start"
    /\ loop_out' = generate_questions(loop_in.calls, loop_in.num_question)
    /\ loop_pc' = "done"
    /\ UNCHANGED loop_in

LoopNext ==
    GenerateQuestions /\ UNCHANGED <<normVars, genVars, valVars, appVars, stVars>>

(***************************************************************************)
(* normalize_answer as a pure function: the argument is drawn from the     *)
(* bounded texts, the function is applied, and applied to its own result.  *)
(***************************************************************************)
NormInputs == {None} \cup TextsUpTo(Chars, MaxLen)

NormIdle ==
    /\ norm_pc = "idle"
    /\ norm_arg = None
    /\ norm_res = None
    /\ norm_res2 = None

NormInit ==
    /\ norm_pc = "start"
    /\ norm_arg \in NormInputs
    /\ norm_res = None
    /\ norm_res2 = None

NormalizeCall ==
    /\ norm_pc = "start"
    /\ norm_res' = normalize_answer(norm_arg)
    /\ norm_pc' = "called"
    /\ UNCHANGED <<norm_arg, norm_res2>>

NormalizeAgain ==
    /\ norm_pc = "called"
    /\ norm_res2' = normalize_answer(norm_res)
    /\ norm_pc' = "twice"
    /\ UNCHANGED <<norm_arg, norm_res>>

NormNext ==
    \/ NormalizeCall /\ UNCHANGED <<genVars, valVars, appVars, stVars, loopVars>>
    \/ NormalizeAgain /\ UNCHANGED <<genVars, valVars, appVars, stVars, loopVars>>


(***************************************************************************)
(* The normalisation rule stated on words, independently of the code: the  *)
(* maximal runs of non-whitespace characters, lower-cased, joined by one   *)
(* space.                                                                  *)
(***************************************************************************)
FirstWordLen(s) ==
    IF \E i \in 1..Len(s) : s[i] \in Whitespace
    THEN (CHOOSE i \in 1..Len(s) :
            /\ s[i] \in Whitespace
            /\ \A j \in 1..(i - 1) : s[j] \notin Whitespace) - 1
    ELSE Len(s)

RECURSIVE Words(_)
Words(s) ==
    IF s = <<>> THEN <<>>
    ELSE IF Head(s) \in Whitespace THEN Words(Tail(s))
         ELSE LET n == FirstWordLen(s)
              IN  <<SubSeq(s, 1, n)>> \o Words(SubSeq(s, n + 1, Len(s)))

RECURSIVE JoinWords(_)
JoinWords(ws) ==
    IF ws = <<>> THEN <<>>
    ELSE IF Len(ws) = 1 THEN Head(ws)
         ELSE Head(ws) \o <<" ">> \o JoinWords(Tail(ws))

ExpectedNormal(v) ==
    IF v = None \/ v = <<>> THEN <<>>
    ELSE JoinWords(Words([i \in 1..Len(v) |-> LowerChar(v[i])]))

UpperChar(c) == CASE c = "a" -> "A" [] c = "b" -> "B" [] OTHER -> c

RECURSIVE DoubleWs(_)
DoubleWs(s) ==
    IF s = <<>> THEN <<>>
    ELSE IF Head(s) \in Whitespace
         THEN <<Head(s), "\t">> \o DoubleWs(Tail(s))
         ELSE <<Head(s)>> \o DoubleWs(Tail(s))

\* Texts that differ from s only in letter case and in amount of whitespace.
Variants(s) ==
    { [i \in 1..Len(s) |-> UpperChar(s[i])],
      [i \in 1..Len(s) |-> LowerChar(s[i])],
      <<" ", "\t">> \o s,
      s \o <<"\t">>,
      DoubleWs(s) }

\* C8: normalize_answer maps a missing or empty input to the empty text and
\* any other input to its lower-cased words joined by single spaces (leading
\* and trailing whitespace removed, every run of whitespace replaced by one
\* space); hence inputs that differ only in letter case and in amount of
\* whitespace have the same normal form.
C8_NormalizeRule ==
    norm_pc \in {"called", "twice"} =>
        /\ norm_res = ExpectedNormal(norm_arg)
        /\ norm_arg # None =>
             \A t \in Variants(norm_arg) : normalize_answer(t) = norm_res

C8_Witness ==
    /\ norm_pc = "called"
    /\ norm_arg = <<"A", " ", "\t", "b">>
    /\ norm_res = <<"a", " ", "b">>

\* C9: normalize_answer is idempotent: applying it to its own result gives
\* that result again.
C9_Idempotent ==
    norm_pc = "twice" => norm_res2 = norm_res

C9_Witness ==
    /\ norm_pc = "twice"
    /\ norm_arg = <<" ", "A", "\t", " ">>
    /\ norm_res = <<"a">>
    /\ norm_res2 = norm_res


(***************************************************************************)
(* Properties of the generator.                                            *)
(***************************************************************************)
\* A topic that is missing, empty or made of whitespace only.
BlankTopic(t) == t = None \/ \A i \in 1..Len(t) : t[i] \in {" ", "\t"}

\* C1: every question generate_mcq returns, validated or fallback, has
\* exactly 4 options, pairwise distinct, and a correct_answer that is exactly
\* one of the options.
C1_ReturnedQuestionIsMultipleChoice ==
    gen_ret.kind = "question" =>
        LET q == gen_ret.q
        IN  /\ Len(q.options) = 4
            /\ \A i, j \in 1..Len(q.options) :
                  i # j => q.options[i] # q.options[j]
            /\ \E i \in 1..Len(q.options) : q.options[i] = q.correct_answer

\* A validated question whose answer the model gave as "A " and whose
\* matching option is "a".
C1_Witness ==
    /\ gen_pc = "done"
    /\ gen_ret.kind = "question"
    /\ gen_ret.q.question = <<"Q?">>
    /\ gen_ret.q.options = <<<<"b">>, <<"a">>, <<"c">>, <<"d">>>>
    /\ gen_ret.q.correct_answer = <<"a">>

\* C2: for a topic that is not blank, generate_mcq never raises: whatever the
\* attempts did, the invocation ends by returning a question, and the retry
\* loop is left without one only after max_attempts failed external calls.
C2_NeverRaises ==
    /\ (gen_pc = "done" /\ ~BlankTopic(gen_topic)) => gen_ret.kind = "question"
    /\ gen_pc = "exhausted" => (inv_calls = 3 /\ ~BlankTopic(gen_topic))

\* The fallback question, returned after three failed attempts of which the
\* last was an external call that raised.
C2_Witness ==
    /\ gen_pc = "done"
    /\ gen_topic = <<"t", " ">>
    /\ inv_calls = 3
    /\ last_error = "Exception"
    /\ gen_ret.kind = "question"
    /\ gen_ret.q.correct_answer = <<"Fundamental concepts of", " ", "t">>

\* C10: generate_mcq with an empty or whitespace-only topic raises at once:
\* no external call is issued, the retry loop and the fallback are never
\* entered, and last_call_time keeps its value.
C10_BlankTopicRejected ==
    /\ [](gen_pc \in {"attempt", "exhausted"} => ~BlankTopic(gen_topic))
    /\ [][(gen_pc = "idle" /\ gen_pc' # "idle" /\ BlankTopic(gen_topic')) =>
            /\ gen_pc' = "done"
            /\ gen_ret' = Raised("ValueError")
            /\ api_calls' = api_calls
            /\ inv_calls' = 0
            /\ last_call_time' = last_call_time]_vars

\* A whitespace-only topic rejected by a generator that has served an
\* invocation before, so that last_call_time is set.
C10_Witness ==
    /\ gen_pc = "done"
    /\ gen_topic = <<" ">>
    /\ gen_ret = Raised("ValueError")
    /\ last_call_time > 0
    /\ api_calls > 1
    /\ inv_calls = 0

\* C12: the fallback question depends on the topic and the difficulty only:
\* any two invocations that ended with the fallback for the same topic and
\* difficulty returned the same question, options in the same order and the
\* same correct_answer, whatever errors their attempts met and whatever the
\* generator did before.
C12_FallbackDeterministic ==
    \A i, j \in 1..Len(fallbacks) :
        (/\ fallbacks[i].topic = fallbacks[j].topic
         /\ fallbacks[i].difficulty = fallbacks[j].difficulty)
        => fallbacks[i].q = fallbacks[j].q

\* Two invocations for the same topic and difficulty that both ended with
\* the fallback, the second after a validation error.
C12_Witness ==
    /\ gen_pc = "done"
    /\ Len(fallbacks) = 2
    /\ fallbacks[1].topic = <<"t", " ">>
    /\ fallbacks[2].topic = <<"t", " ">>
    /\ fallbacks[1].difficulty = <<"hard">>
    /\ fallbacks[2].difficulty = <<"hard">>
    /\ last_error = "ValidationError"
    /\ gen_ret = Returned(fallbacks[1].q)
    /\ fallbacks[2].q.options[1] = <<"Fundamental concepts of", " ", "t">>

\* Two texts are equal ignoring letter case and surrounding whitespace.
SameIgnoringCase(a, b) == Lower(Strip(a)) = Lower(Strip(b))

\* C16: a model response that lacks a required key, or whose options list
\* does not hold exactly 4 entries, or holds two equal entries, or holds no
\* entry equal to its correct_answer ignoring case and surrounding
\* whitespace, never validates: its attempt fails.
C16_InvalidResponseRejected ==
    (/\ val_pc = "done"
     /\ val_response.kind = "json"
     /\ \/ ~(required_keys \subseteq val_response.keys)
        \/ /\ val_response.options # None
           /\ LET options == val_response.options
              IN  \/ Len(options) # 4
                  \/ \E i, j \in 1..Len(options) :
                        i # j /\ options[i] = options[j]
                  \/ \A i \in 1..Len(options) :
                        ~SameIgnoringCase(options[i],
                                          val_response.correct_answer))
    => ~val_outcome.ok

\* The options of a response are 4 texts of which none is dropped by the
\* cleaning and no two are equal ignoring case and surrounding whitespace.
FourDistinctOptions(response) ==
    /\ response.kind = "json"
    /\ required_keys \subseteq response.keys
    /\ response.options # None
    /\ Len(response.options) = 4
    /\ \A i \in 1..4 : response.options[i] # <<>>
    /\ \A i, j \in 1..4 :
          i # j => ~SameIgnoringCase(response.options[i], response.options[j])

\* The attempt validated, and its correct_answer is the stripped text of the
\* first option that equals the response's correct_answer ignoring case and
\* surrounding whitespace, an element of the returned options.
AcceptedWithMatchedOption ==
    /\ val_outcome.ok
    /\ LET options == val_response.options
           first == CHOOSE i \in 1..4 :
                      /\ SameIgnoringCase(options[i], val_response.correct_answer)
                      /\ \A j \in 1..(i - 1) :
                            ~SameIgnoringCase(options[j],
                                              val_response.correct_answer)
       IN  /\ val_outcome.q.correct_answer = Strip(options[first])
           /\ val_outcome.q.options[first] = val_outcome.q.correct_answer
           /\ val_outcome.q.options = [i \in 1..4 |-> Strip(options[i])]

\* C17 as stated: whenever the correct_answer of a response with 4 distinct
\* options equals one of them ignoring case and surrounding whitespace, the
\* attempt validates and returns the text of that option as correct_answer.
C17_AnyMatchAccepted ==
    (/\ val_pc = "done"
     /\ FourDistinctOptions(val_response)
     /\ \E i \in 1..4 : SameIgnoringCase(val_response.options[i],
                                          val_response.correct_answer))
    => AcceptedWithMatchedOption

\* C17, amended: whenever the correct_answer of a response with 4 distinct
\* options is not blank and equals one of the options ignoring case and
\* surrounding whitespace, the attempt validates and returns the text of
\* that option as correct_answer, which is an element of the returned
\* options.
C17_NonBlankMatchAccepted ==
    (/\ val_pc = "done"
     /\ FourDistinctOptions(val_response)
     /\ Strip(val_response.correct_answer) # <<>>
     /\ \E i \in 1..4 : SameIgnoringCase(val_response.options[i],
                                          val_response.correct_answer))
    => AcceptedWithMatchedOption

\* The answer "A " of the response is replaced by the second option, "a".
C17_Witness ==
    /\ val_pc = "done"
    /\ val_response.kind = "json"
    /\ val_response.options = <<<<"b">>, <<"a">>, <<"d", " ">>, <<"c">>>>
    /\ val_response.correct_answer = <<"A", " ">>
    /\ val_outcome.ok
    /\ val_outcome.q.correct_answer = <<"a">>
    /\ val_outcome.q.options = <<<<"b">>, <<"a">>, <<"d">>, <<"c">>>>

\* C15: whenever the generator is about to issue an external call, at least
\* min_call_interval seconds have passed since its previous external call
\* (the test call of the constructor included).
C15_MinCallInterval ==
    gen_pc = "attempt" => now - last_api_time >= min_call_interval

\* C14: one invocation issues at most 3 external calls, one per attempt.  An
\* attempt that validates ends the invocation with its question and without
\* a wait; a failed first attempt is followed by a wait of 2 s and a failed
\* second attempt by a wait of 4 s; the failed third attempt is followed by
\* no wait, and then the fallback is returned without an external call.
C14_RetryBudget ==
    /\ [](/\ inv_calls <= 3
          /\ gen_pc = "attempt" => (inv_calls = attempt /\ attempt < 3)
          /\ gen_pc = "exhausted" => inv_calls = 3)
    /\ [][/\ gen_pc # "attempt" => api_calls' = api_calls
          /\ fallbacks' # fallbacks => gen_pc = "exhausted"
          /\ gen_pc = "attempt" =>
                /\ api_calls' = api_calls + 1
                /\ inv_calls' = inv_calls + 1
                /\ gen_pc' = "done" =>
                      /\ gen_ret'.kind = "question"
                      /\ now' - now \in CallDurations
                      /\ fallbacks' = fallbacks
                /\ gen_pc' = "attempt" =>
                      /\ inv_calls' < 3
                      /\ attempt' = attempt + 1
                      /\ \E d \in CallDurations :
                            now' = now + d + (IF inv_calls' = 1 THEN 2 ELSE 4)
                /\ gen_pc' = "exhausted" =>
                      /\ inv_calls' = 3
                      /\ now' - now \in CallDurations
          /\ gen_pc = "exhausted" =>
                /\ gen_pc' = "done"
                /\ gen_ret'.kind = "question"
                /\ now' = now
                /\ Len(fallbacks') = Len(fallbacks) + 1]_vars

\* The first invocation ends with the fallback after three failed calls and
\* the waits of 2 s and 4 s between them.
C14_Witness ==
    /\ gen_pc = "done"
    /\ invocations = 0
    /\ inv_calls = 3
    /\ api_calls = 4
    /\ Len(fallbacks) = 1
    /\ gen_ret = Returned(fallbacks[1].q)
    /\ now - last_call_time = 9


(***************************************************************************)
(* Properties of the web application.                                      *)
(***************************************************************************)
\* C3: a create-quiz request by a logged-in user with a topic that is not
\* blank and a question count N >= 1 (the generator being constructible)
\* ends with one new quiz persisted that holds exactly N questions.
C3_CreateQuizPersists ==
    (/\ resp.route = "create_quiz"
     /\ resp.status # "login"
     /\ resp.error # "ValueError"
     /\ ~BlankTopic(resp.topic)
     /\ resp.n >= 1)
    => /\ resp.status = "created"
       /\ \E q \in quizzes : q.id = resp.id /\ Len(q.questions) = resp.n

\* C4: in every stored attempt, answer i is marked correct exactly when the
\* normal forms of the submitted answer and of the quiz's stored
\* correct_answer i are equal, and the score is the number of answers marked
\* correct; the options play no part.
C4_ScoringRule ==
    \A k \in 1..Len(attempts) :
        LET a == attempts[k]
            quiz == QuizById(a.quiz_id)
        IN  /\ \A i \in 1..Len(quiz.questions) :
                  a.answers[i].is_correct <=>
                      ExpectedNormal(a.answers[i].user_answer)
                          = ExpectedNormal(quiz.questions[i].correct_answer)
            /\ a.score = Cardinality({i \in 1..Len(a.answers) :
                                         a.answers[i].is_correct})
            /\ (resp.route = "take_quiz" /\ resp.status = "submitted"
                  /\ resp.id = a.id)
               => \A i \in 1..Len(resp.form) :
                     a.answers[i].user_answer = resp.form[i]

\* The same answer text submitted for a question it matches up to case and
\* whitespace and for a question it does not match.
C4_Witness ==
    /\ resp.route = "take_quiz"
    /\ resp.status = "submitted"
    /\ resp.form = <<<<" ", "A", "\t">>, <<" ", "A", "\t">>>>
    /\ \E k \in 1..Len(attempts) :
          /\ attempts[k].id = resp.id
          /\ attempts[k].score = 1
          /\ attempts[k].answers[1].is_correct
          /\ ~attempts[k].answers[2].is_correct
          /\ attempts[k].answers[1].correct_answer = <<"a">>

\* C5: every stored attempt has as many per-question entries as its
\* total_questions, which is the number of questions of its quiz.
C5_AttemptTotals ==
    \A k \in 1..Len(attempts) :
        LET a == attempts[k]
        IN  /\ \E q \in quizzes : q.id = a.quiz_id
            /\ Len(a.answers) = a.total_questions
            /\ a.total_questions = Len(QuizById(a.quiz_id).questions)

\* An attempt at a quiz of two questions with one answer missing.
C5_Witness ==
    \E k \in 1..Len(attempts) :
        /\ attempts[k].total_questions = 2
        /\ Len(attempts[k].answers) = 2
        /\ attempts[k].answers[1].user_answer = None
        /\ attempts[k].answers[2].user_answer # None

\* C6: a submission that lacks answers is stored like any other, and every
\* question without an answer is scored as the empty text and marked
\* incorrect.
C6_MissingAnswerIncorrect ==
    /\ \A k \in 1..Len(attempts) : \A i \in 1..Len(attempts[k].answers) :
          attempts[k].answers[i].user_answer = None =>
              /\ ~attempts[k].answers[i].is_correct
              /\ normalize_answer(attempts[k].answers[i].user_answer) = <<>>
    /\ (resp.route = "take_quiz" /\ resp.status # "404") =>
          /\ resp.status = "submitted"
          /\ resp.error = ""
          /\ resp.id \in AttemptIds
          /\ Len(AttemptById(resp.id).answers) = Len(resp.form)

\* A submission with no answer for the second of two questions, the first
\* answered correctly.
C6_Witness ==
    /\ resp.route = "take_quiz"
    /\ resp.status = "submitted"
    /\ resp.form = <<<<" ", "A", "\t">>, None>>
    /\ \E k \in 1..Len(attempts) :
          /\ attempts[k].id = resp.id
          /\ attempts[k].score = 1
          /\ ~attempts[k].answers[2].is_correct

\* C7: a submission to a quiz without questions is rejected: no attempt with
\* total_questions 0 is stored and no percentage is computed from a total
\* of 0.
C7_EmptyQuizRejected ==
    /\ \A k \in 1..Len(attempts) : attempts[k].total_questions # 0
    /\ resp.error # "ZeroDivisionError"

\* C11: a create-quiz request by a logged-in user with a question count of
\* zero or less is rejected: it ends on the error page and no quiz without
\* questions is ever persisted.
C11_NonPositiveCountRejected ==
    /\ (resp.route = "create_quiz" /\ resp.status # "login" /\ resp.n <= 0)
          => resp.status = "error"
    /\ \A q \in quizzes : q.questions # <<>>

\* C13: showing a quiz never changes what is stored: every step leaves each
\* quiz as it was (questions, order of their options, correct_answer), the
\* page shows the stored options in some order with the stored
\* correct_answer, and every submission is scored against the stored
\* question and correct_answer.
C13_DisplayKeepsStoredQuiz ==
    /\ [][\A q \in quizzes : \A p \in quizzes' : p.id = q.id => p = q]_vars
    /\ [](\A k \in 1..Len(attempts) :
             \E quiz \in quizzes :
                /\ quiz.id = attempts[k].quiz_id
                /\ \A i \in 1..Len(quiz.questions) :
                      /\ attempts[k].answers[i].correct_answer
                            = quiz.questions[i].correct_answer
                      /\ attempts[k].answers[i].question
                            = quiz.questions[i].question)
    /\ [](resp.route = "take_quiz_get" /\ resp.status = "ok" =>
             LET quiz == QuizById(resp.id)
             IN  /\ Len(display_questions) = Len(quiz.questions)
                 /\ \A i \in 1..Len(quiz.questions) :
                       /\ display_questions[i].correct_answer
                             = quiz.questions[i].correct_answer
                       /\ {display_questions[i].options[j] : j \in 1..4}
                             = {quiz.questions[i].options[j] : j \in 1..4})

\* A quiz with shuffle_options was shown with the options of its first
\* question in another order than stored, and then a submission with the
\* right answer to that question was scored.
C13_Witness ==
    /\ resp.route = "take_quiz"
    /\ resp.status = "submitted"
    /\ display_questions # <<>>
    /\ \E quiz \in quizzes :
          /\ quiz.shuffle_options
          /\ quiz.questions # <<>>
          /\ quiz.questions[1].options = <<<<>>, <<"a">>, <<"b">>, <<"c">>>>
          /\ display_questions[1].options = <<<<"c">>, <<"b">>, <<"a">>, <<>>>>
          /\ attempts # <<>>
          /\ attempts[Len(attempts)].quiz_id = quiz.id
          /\ attempts[Len(attempts)].answers[1].is_correct

\* C20: in every stored attempt, a submitted answer that is the text of an
\* option of the question is marked correct exactly when that option is the
\* question's correct_answer; the questions are those the generator returns.
C20_OptionsScoreApart ==
    \A k \in 1..Len(attempts) :
        \A quiz \in quizzes :
            quiz.id = attempts[k].quiz_id =>
                \A i \in 1..Len(quiz.questions) :
                    LET user_answer == attempts[k].answers[i].user_answer
                        options == quiz.questions[i].options
                    IN  (\E j \in 1..Len(options) : options[j] = user_answer)
                        => (attempts[k].answers[i].is_correct
                              <=> user_answer = quiz.questions[i].correct_answer)

\* C18: the attempts are an append-only history.  Every step leaves the
\* attempts as they are, or is a submission, which adds one attempt with a
\* new id behind the others and changes neither an existing attempt nor a
\* quiz, or is the deletion of a quiz by its owner, which removes that quiz
\* and exactly its attempts; every submission is a step of the second kind.
C18_AttemptsAppendOnly ==
    [][/\ \/ attempts' = attempts /\ quizzes' = quizzes
          \/ /\ resp'.route = "take_quiz"
             /\ resp'.status = "submitted"
             /\ Len(attempts') = Len(attempts) + 1
             /\ SubSeq(attempts', 1, Len(attempts)) = attempts
             /\ attempts'[Len(attempts')].id = resp'.id
             /\ \A k \in 1..Len(attempts) : attempts[k].id # resp'.id
             /\ quizzes' = quizzes
          \/ /\ resp'.route = "delete_quiz"
             /\ resp'.status = "deleted"
             /\ \E quiz \in quizzes :
                   /\ quiz.id = resp'.id
                   /\ quiz.user_id = current_user'
                   /\ quizzes' = quizzes \ {quiz}
                   /\ attempts' = SelectSeq(attempts,
                                            LAMBDA a : a.quiz_id # quiz.id)
       /\ (resp'.route = "take_quiz" /\ resp'.status = "submitted")
             => Len(attempts') = Len(attempts) + 1]_vars

\* The same answers submitted twice to one quiz: two attempts.
C18_Witness ==
    /\ resp.route = "take_quiz"
    /\ resp.status = "submitted"
    /\ Len(attempts) = 2
    /\ attempts[1].quiz_id = attempts[2].quiz_id
    /\ attempts[1].answers = attempts[2].answers
    /\ attempts[1].answers # <<>>
    /\ attempts[1].id # attempts[2].id

\* C19: load_quiz_from_cache(topic, difficulty) returns True and installs
\* the cached questions exactly when the cache holds an entry saved under
\* the key of topic and difficulty whose timestamp is less than 600 s old;
\* otherwise it returns False and where no generation follows the manager
\* keeps its questions.  A Generate Quiz click that hits the cache
\* constructs no generator, calls generate_mcq not once, and leaves the
\* cache and last_generation_time alone.
C19_CacheLoad ==
    [][st_run'.load_called =>
         LET key == cache_key(st_run'.topic, st_run'.difficulty)
             fresh == /\ key \in DOMAIN quiz_cache
                      /\ st_now - quiz_cache[key].timestamp < 600
         IN  /\ st_run'.load_ret = fresh
             /\ fresh => /\ manager_questions' = quiz_cache[key].questions
                         /\ st_run'.generators = 0
                         /\ st_run'.calls = 0
                         /\ quiz_cache' = quiz_cache
                         /\ last_generation_time' = last_generation_time
                         /\ quiz_generated'
             /\ (~fresh /\ last_generation_time' = last_generation_time)
                   => manager_questions' = manager_questions]_vars

\* A quiz of two questions was generated and cached, the manager was
\* replaced by Reset Quiz, and 599 s after the save a Generate Quiz click
\* for the same topic and difficulty installed the cached questions.
C19_Witness ==
    /\ st_run.button = "generate"
    /\ st_run.load_called
    /\ st_run.load_ret
    /\ st_run.calls = 0
    /\ last_generation_time = 0
    /\ LET key == cache_key(st_run.topic, st_run.difficulty)
       IN  /\ key \in DOMAIN quiz_cache
           /\ st_now - quiz_cache[key].timestamp = 599
           /\ Len(quiz_cache[key].questions) = 2
           /\ manager_questions = quiz_cache[key].questions
           /\ DOMAIN quiz_cache # {key}

\* C21: a delete-quiz, quiz-report, download-report or quiz-created request
\* for an existing quiz by a user who is not logged in or is not the
\* creator of the quiz leaves quizzes and attempts unchanged, is answered
\* by a redirect and shows no attempt; a report that shows attempts shows
\* attempts of a quiz of the requesting user; and a quiz disappears only
\* in a delete-quiz request for it by its creator.
C21_OnlyCreator ==
    [][/\ (/\ resp'.route \in {"delete_quiz", "quiz_report",
                               "download_report", "quiz_created"}
           /\ \E q \in quizzes :
                 q.id = resp'.id /\ q.user_id # current_user')
          => /\ quizzes' = quizzes
             /\ attempts' = attempts
             /\ report' = <<>>
             /\ resp'.status \in {"login", "index"}
       /\ resp'.route \in {"quiz_report", "download_report", "quiz_created"}
          => \A i \in 1..Len(report') :
                \E q \in quizzes : /\ q.id = report'[i].quiz_id
                                   /\ q.id = resp'.id
                                   /\ q.user_id = current_user'
       /\ \A q \in quizzes :
             (\A r \in quizzes' : r.id # q.id)
             => /\ resp'.route = "delete_quiz"
                /\ resp'.id = q.id
                /\ current_user' = q.user_id]_vars

\* User u2 asked for the report of a quiz of u1 that has an attempt, and
\* was sent to the index page; the quiz and the attempt are still there.
C21_Witness ==
    /\ resp.route = "quiz_report"
    /\ resp.status = "index"
    /\ current_user = "u2"
    /\ report = <<>>
    /\ \E q \in quizzes : /\ q.id = resp.id
                          /\ q.user_id = "u1"
                          /\ \E i \in 1..Len(attempts) : attempts[i].quiz_id = q.id

\* C22: any two generations of a session that called the model began at
\* least min_generation_interval seconds apart.
C22_GenerationsApart ==
    \A i \in 1..(Len(generations) - 1) :
       generations[i + 1] - generations[i] >= 5

\* C24: while quiz_generated is set the manager holds a question and
\* current_q_idx is the index of one of its questions.
C24_PreviewInRange ==
    quiz_generated =>
       /\ Len(manager_questions) > 0
       /\ 0 <= current_q_idx
       /\ current_q_idx < Len(manager_questions)

\* C23: an accepted generate_questions(n) has made at most n + 2 calls of
\* generate_mcq when it ends, whatever the calls do; the manager then
\* holds at most n questions whose texts, lower-cased and trimmed, differ
\* pairwise; and the result is True exactly when it holds a question.
C23_LoopBounded ==
    loop_pc = "done" =>
       /\ loop_out.calls <= loop_in.num_question + 2
       /\ Len(loop_out.questions) <= loop_in.num_question
       /\ \A i, j \in 1..Len(loop_out.questions) :
             i # j => Lower(Strip(loop_out.questions[i].question))
                        # Lower(Strip(loop_out.questions[j].question))
       /\ loop_out.ret = (Len(loop_out.questions) > 0)

\* Two questions were asked for and every call after the first returned a
\* question whose text was already collected: the loop ended after four
\* calls with one question and the result True.
C23_Witness ==
    /\ loop_pc = "done"
    /\ loop_in.num_question = 2
    /\ \A i \in 1..4 : loop_in.calls[i].kind = "question"
    /\ loop_in.calls[1].q # loop_in.calls[2].q
    /\ loop_out.calls = 4
    /\ Len(loop_out.questions) = 1
    /\ loop_out.ret

(***************************************************************************)
(* The specifications.                                                     *)
(***************************************************************************)
InitNorm == NormInit /\ GenIdle /\ ValIdle /\ AppIdle /\ StIdle /\ LoopIdle

SpecNorm == InitNorm /\ [][NormNext]_vars

InitGen == GenInit /\ NormIdle /\ ValIdle /\ AppIdle /\ StIdle /\ LoopIdle

SpecGen == InitGen /\ [][GenNext]_vars

InitScoring == StoredQuizInit /\ NormIdle /\ GenIdle /\ ValIdle /\ StIdle /\ LoopIdle

SpecScoring == InitScoring /\ [][ScoringNext]_vars

InitCreate == AppIdle /\ NormIdle /\ GenIdle /\ ValIdle /\ StIdle /\ LoopIdle

SpecCreate == InitCreate /\ [][CreateNext]_vars

InitDisplay == StoredQuizInit /\ NormIdle /\ GenIdle /\ ValIdle /\ StIdle /\ LoopIdle

SpecDisplay == InitDisplay /\ [][DisplayNext]_vars

InitTick == TickedQuizInit /\ NormIdle /\ GenIdle /\ ValIdle /\ StIdle /\ LoopIdle

SpecTick == InitTick /\ [][TickNext]_vars

InitValidate == ValInit /\ NormIdle /\ GenIdle /\ AppIdle /\ StIdle /\ LoopIdle

SpecValidate == InitValidate /\ [][ValNext]_vars

\* The Streamlit session alone.
InitSession == SessionInit /\ NormIdle /\ GenIdle /\ ValIdle /\ AppIdle /\ LoopIdle

SpecSession == InitSession /\ [][SessionNext]_vars

\* The owner-only pages over a stored quiz.
InitReport == ReportQuizInit /\ NormIdle /\ GenIdle /\ ValIdle /\ StIdle /\ LoopIdle

SpecReport == InitReport /\ [][ReportNext]_vars

\* The Streamlit session with its preview.
SpecPreview == InitSession /\ [][PreviewNext]_vars

\* generate_questions alone.
InitLoop == LoopInit /\ NormIdle /\ GenIdle /\ ValIdle /\ AppIdle /\ StIdle

SpecLoop == InitLoop /\ [][LoopNext]_vars

====
